---- MODULE Spec2Model ----
(***************************************************************************)
(* Vacancy statistics: the single-pass engine Statistics._generate of      *)
(* stats.py, the dataset reader, and the per-file reducers of mp_stats.py  *)
(* and cf_stats.py.                                                        *)
(*                                                                         *)
(* Conventions.  A Python str is a sequence of one-character strings.  A   *)
(* Python dict is a sequence of <<key, value>> pairs in insertion order.   *)
(* A float that the code only ever compares or prints is kept as an exact  *)
(* fraction <<numerator, denominator>>; currency rates are kept in         *)
(* ten-thousandths (0.0055 becomes 55), shares in ten-thousandths too.     *)
(* A list of vacancies is kept run-length encoded: the run [v, n] stands   *)
(* for n consecutive vacancies equal to v.                                 *)
(***************************************************************************)
EXTENDS Integers, Sequences, FiniteSets, TLC

VARIABLES pc, dataset, profession_name, one_percent, i, error,
          salary_dynamic, salary_dynamic_filtered,
          count_dynamic, count_dynamic_filtered,
          city_counts, city_salaries,
          files, file, stdout, cpu_count, process_batches, processes, q,
          salary_obj, date_str, ret,
          data, current_date, date_end, rates,
          pages, page, total_pages, items, requested

vars == <<pc, dataset, profession_name, one_percent, i, error,
          salary_dynamic, salary_dynamic_filtered,
          count_dynamic, count_dynamic_filtered,
          city_counts, city_salaries,
          files, file, stdout, cpu_count, process_batches, processes, q,
          salary_obj, date_str, ret,
          data, current_date, date_end, rates,
          pages, page, total_pages, items, requested>>

\* hh_api.hh_get_vacancies: the number of pages the job board reports for
\* the time window, the locals of the function, and the page index of every
\* request sent so far
hhVars == <<pages, page, total_pages, items, requested>>

\* the rows of the vacancies file of exchange_rates.py, the two dates of its
\* loop, and the rows of exchange_rates.csv
rateVars == <<data, current_date, date_end, rates>>

\* the objects and arguments of the functions of table.py that are called
\* on their own, and what the call returned or raised
libVars == <<salary_obj, date_str, ret, rateVars, hhVars>>

\* the directory of csv files, what was printed, and the state of
\* mp_stats.main : untouched by the Statistics object
runVars ==
    <<files, file, stdout, cpu_count, process_batches, processes, q, libVars>>

(***************************************************************************)
(* Bounds of the model and constants of the program.                       *)
(***************************************************************************)
MaxRecords == 2

MaxCities == 11

BigRun == 25

MaxOdd == 2

TopN == 10

PercentDivisor == 100

FallbackYear == 2022

(***************************************************************************)
(* Strings.                                                                *)
(***************************************************************************)
Digits == {"0", "1", "2", "3", "4", "5", "6", "7", "8", "9"}

DigitVal(c) ==
    CASE c = "0" -> 0 [] c = "1" -> 1 [] c = "2" -> 2 [] c = "3" -> 3
      [] c = "4" -> 4 [] c = "5" -> 5 [] c = "6" -> 6 [] c = "7" -> 7
      [] c = "8" -> 8 [] c = "9" -> 9

Front(s) == SubSeq(s, 1, Len(s) - 1)

Last(s) == s[Len(s)]

\* s[:n]
Take(s, n) == SubSeq(s, 1, IF Len(s) < n THEN Len(s) ELSE n)

RECURSIVE DecimalValue(_)
DecimalValue(s) ==
    IF s = <<>> THEN 0 ELSE DecimalValue(Front(s)) * 10 + DigitVal(Last(s))

\* int(s) for a str over digits, "-" and letters: an optional sign, then one
\* or more digits; anything else raises ValueError (ok = FALSE).
ParseInt(s) ==
    LET neg  == Len(s) > 0 /\ s[1] = "-"
        body == IF neg THEN Tail(s) ELSE s
        ok   == Len(body) > 0 /\ \A k \in DOMAIN body : body[k] \in Digits
    IN  [ok  |-> ok,
         val |-> IF ok THEN (IF neg THEN 0 - DecimalValue(body) ELSE DecimalValue(body))
                 ELSE 0]

\* str.startswith in place of  in
ContainsAsPrefix(sub, s) ==
    Len(sub) <= Len(s) /\ SubSeq(s, 1, Len(sub)) = sub

\* name in v.name : case-sensitive substring containment
Contains(sub, s) ==
    \E k \in 0..Len(s) :
        k + Len(sub) <= Len(s) /\ SubSeq(s, k + 1, k + Len(sub)) = sub

(***************************************************************************)
(* Dicts (insertion ordered).                                              *)
(***************************************************************************)
Keys(d) == {d[k][1] : k \in DOMAIN d}

\* key in d
Has(d, key) == \E k \in DOMAIN d : d[k][1] = key

IndexOf(d, key) == CHOOSE k \in DOMAIN d : d[k][1] = key

\* d[key] of a defaultdict whose factory yields default
Get(d, key, default) ==
    IF Has(d, key) THEN d[IndexOf(d, key)][2] ELSE default

\* d[key] = val
Put(d, key, val) ==
    IF Has(d, key)
    THEN [d EXCEPT ![IndexOf(d, key)] = <<key, val>>]
    ELSE Append(d, <<key, val>>)

(***************************************************************************)
(* MeanRepresentation.                                                     *)
(***************************************************************************)
MeanRepresentation == [sum |-> 0, count |-> 0]

add(m, num) == [sum |-> m.sum + num, count |-> m.count + 1]

\* sum / count without the test for count == 0
meanUnguarded(m) == <<m.sum, m.count>>

\* the fraction sum / count; 0 when nothing was added
mean(m) == IF m.count = 0 THEN <<0, 1>> ELSE <<m.sum, m.count>>

(***************************************************************************)
(* currency_to_rub, in ten-thousandths of a rouble.                        *)
(***************************************************************************)
currency_to_rub ==
    ("AZN" :> 356800) @@ ("BYR" :> 239100) @@ ("EUR" :> 599000) @@
    ("GEL" :> 217400) @@ ("KGS" :> 7600) @@ ("KZT" :> 1300) @@
    ("RUR" :> 10000) @@ ("UAH" :> 16400) @@ ("USD" :> 606600) @@
    ("UZS" :> 55)

(***************************************************************************)
(* Vacancies.  salary_from and salary_to are the numbers their decimal     *)
(* strings denote (float(...) of an integer-valued string).                *)
(***************************************************************************)
Vacancy(name, salary_from, salary_to, salary_currency, area_name, published_at) ==
    [name |-> name, salary_from |-> salary_from, salary_to |-> salary_to,
     salary_currency |-> salary_currency, area_name |-> area_name,
     published_at |-> published_at]

\* len(dataset.vacancies_objects)
RECURSIVE NumRecords(_)
NumRecords(ds) ==
    IF ds = <<>> THEN 0 ELSE NumRecords(Front(ds)) + Last(ds).n

\* int(x) of the fraction a / b, b > 0: truncation toward zero
TruncDiv(a, b) == IF a >= 0 THEN a \div b ELSE 0 - ((0 - a) \div b)

\* currency_to_rub.get(code, 1) in place of currency_to_rub[code]
LookupWithDefault(code) ==
    [ok |-> TRUE,
     rate |-> IF code \in DOMAIN currency_to_rub THEN currency_to_rub[code]
              ELSE 10000]

\* currency_to_rub[code]: KeyError (ok = FALSE) for a code that is no key
Lookup(code) ==
    IF code \in DOMAIN currency_to_rub
    THEN [ok |-> TRUE, rate |-> currency_to_rub[code]]
    ELSE [ok |-> FALSE, rate |-> 0]

\* round(...) in place of int(...)
SalaryInRubRounded(v) ==
    ((v.salary_to + v.salary_from) * Lookup(v.salary_currency).rate + 10000)
        \div 20000

\* int((float(salary_to) + float(salary_from)) / 2 * currency_to_rub[currency])
\* (for the salaries and currencies of the inputs below the float product
\* truncates to the same integer as the exact one)
SalaryInRub(v) ==
    TruncDiv((v.salary_to + v.salary_from) * Lookup(v.salary_currency).rate,
             20000)

(***************************************************************************)
(* Statistics._generate: the accumulators, one pass of the loop body, the  *)
(* post-processing.                                                        *)
(***************************************************************************)
EmptyAcc ==
    [error |-> "",
     salary_dynamic |-> <<>>, salary_dynamic_filtered |-> <<>>,
     count_dynamic |-> <<>>, count_dynamic_filtered |-> <<>>,
     city_counts |-> <<>>, city_salaries |-> <<>>]

\* name in v.name : case-sensitive substring containment
Matches(name, v) == Contains(name, v.name)

\* the two filtered maps after one vacancy
UpdateFiltered(acc, v, name, year, salary) ==
    IF Matches(name, v)
    THEN [acc EXCEPT
            !.count_dynamic_filtered =
                Put(@, year, Get(@, year, 0) + 1),
            !.salary_dynamic_filtered =
                Put(@, year, add(Get(@, year, MeanRepresentation), salary))]
    ELSE acc

\* one iteration of  for v in dataset.vacancies_objects
LoopBody(acc, v, name) ==
    LET parsed == ParseInt(Take(v.published_at, 4))
    IN  IF ~parsed.ok
        THEN [acc EXCEPT !.error = "ValueError"]
        ELSE IF ~Lookup(v.salary_currency).ok
        THEN [acc EXCEPT !.error = "KeyError"]
        ELSE
          LET year   == parsed.val
              salary == SalaryInRub(v)
              a1 == [acc EXCEPT
                       !.count_dynamic = Put(@, year, Get(@, year, 0) + 1),
                       !.salary_dynamic =
                           Put(@, year, add(Get(@, year, MeanRepresentation), salary))]
              a2 == UpdateFiltered(a1, v, name, year, salary)
          IN  [a2 EXCEPT
                 !.city_counts = Put(@, v.area_name, Get(@, v.area_name, 0) + 1),
                 !.city_salaries =
                     Put(@, v.area_name,
                         add(Get(@, v.area_name, MeanRepresentation), salary))]

\* n consecutive iterations over equal vacancies; an exception ends the loop
RECURSIVE Iterate(_, _, _, _)
Iterate(acc, v, name, n) ==
    IF n = 0 \/ acc.error # "" THEN acc
    ELSE Iterate(LoopBody(acc, v, name), v, name, n - 1)

Acc ==
    [error |-> error,
     salary_dynamic |-> salary_dynamic,
     salary_dynamic_filtered |-> salary_dynamic_filtered,
     count_dynamic |-> count_dynamic,
     count_dynamic_filtered |-> count_dynamic_filtered,
     city_counts |-> city_counts, city_salaries |-> city_salaries]

SetAcc(acc) ==
    /\ error' = acc.error
    /\ salary_dynamic' = acc.salary_dynamic
    /\ salary_dynamic_filtered' = acc.salary_dynamic_filtered
    /\ count_dynamic' = acc.count_dynamic
    /\ count_dynamic_filtered' = acc.count_dynamic_filtered
    /\ city_counts' = acc.city_counts
    /\ city_salaries' = acc.city_salaries

\* fractions a = <<num, den>>, den > 0
FracGT(a, b) == a[1] * b[2] > b[1] * a[2]

\* list.sort(key=..., reverse=True) on <<key, item>> pairs: stable
RECURSIVE InsertDesc(_, _)
InsertDesc(s, x) ==
    IF s = <<>> THEN <<x>>
    ELSE IF FracGT(x[1], Head(s)[1]) THEN <<x>> \o s
    ELSE <<Head(s)>> \o InsertDesc(Tail(s), x)

RECURSIVE SortDescKeyed(_)
SortDescKeyed(s) ==
    IF s = <<>> THEN <<>> ELSE InsertDesc(SortDescKeyed(Front(s)), Last(s))

\* the list left in the order of the dict, first seen first
InsertionOrder(list) == list

\* sort by count, descending
SortByCount(list) ==
    LET keyed == [k \in DOMAIN list |-> <<(<<list[k][2], 1>>), list[k]>>]
        sorted == SortDescKeyed(keyed)
    IN  [k \in DOMAIN sorted |-> sorted[k][2]]

\* sort by x[1].mean(), descending
SortByMean(list) ==
    LET keyed == [k \in DOMAIN list |-> <<mean(list[k][2]), list[k]>>]
        sorted == SortDescKeyed(keyed)
    IN  [k \in DOMAIN sorted |-> sorted[k][2]]

\* round(count / total, 4), in ten-thousandths; total > 0.  Halves go to the
\* even neighbour.
RoundShare(count, total) ==
    LET quot == (count * 10000) \div total
        r == (count * 10000) % total
    IN  IF 2 * r > total THEN quot + 1
        ELSE IF 2 * r < total THEN quot
        ELSE IF quot % 2 = 0 THEN quot ELSE quot + 1

\* a division by the total computed ahead of the loop over the top cities
DivisionRaisesEagerly(city_count_list, total) == total = 0

\* city_count_list[i][1] / len(dataset.vacancies_objects) is evaluated once per
\* entry of the list: ZeroDivisionError needs an entry and a total of 0
DivisionRaises(city_count_list, total) == city_count_list # <<>> /\ total = 0

\* > in place of >=
AllowedCitiesStrict(counts, threshold) ==
    {counts[k][1] : k \in {j \in DOMAIN counts : counts[j][2] > threshold}}

\* allowed_cities
AllowedCities(counts, threshold) ==
    {counts[k][1] : k \in {j \in DOMAIN counts : counts[j][2] >= threshold}}

\* the shares of the first cities by count, with no filter after them
CityCountsUnfiltered(counts, threshold, total) ==
    LET city_count_list == Take(SortByCount(counts), TopN)
    IN  [k \in DOMAIN city_count_list |->
           <<city_count_list[k][1], RoundShare(city_count_list[k][2], total)>>]

\* the published city_counts
CityCounts(counts, threshold, total) ==
    LET allowed == AllowedCities(counts, threshold)
        city_count_list == Take(SortByCount(counts), TopN)
        shares == [k \in DOMAIN city_count_list |->
                     <<city_count_list[k][1],
                       RoundShare(city_count_list[k][2], total)>>]
    IN  SelectSeq(shares, LAMBDA x : x[1] \in allowed)

\* the salaries ranked and cut to the top before the filter, as the counts are
CitySalariesCutFirst(counts, salaries, threshold) ==
    LET allowed == AllowedCities(counts, threshold)
    IN  SelectSeq(Take(SortByMean(salaries), TopN), LAMBDA x : x[1] \in allowed)

\* the published city_salaries
CitySalaries(counts, salaries, threshold) ==
    LET allowed == AllowedCities(counts, threshold)
        city_salaries_list == SelectSeq(salaries, LAMBDA x : x[1] \in allowed)
    IN  Take(SortByMean(city_salaries_list), TopN)

\* DataSet(file_name, vacancies_objects): the list of vacancies grows by one
\* run of n equal vacancies
AppendVacancies(v, n) ==
    /\ pc = "idle"
    /\ dataset' = Append(dataset, [v |-> v, n |-> n])
    /\ UNCHANGED <<pc, profession_name, one_percent, i, error,
                   salary_dynamic, salary_dynamic_filtered,
                   count_dynamic, count_dynamic_filtered,
                   city_counts, city_salaries>>
    /\ UNCHANGED runVars

\* Statistics(dataset, profession_name) up to the loop
Statistics(name) ==
    /\ pc = "idle"
    /\ pc' = "loop"
    /\ profession_name' = name
    /\ SetAcc(EmptyAcc)
    /\ one_percent' = TruncDiv(NumRecords(dataset), PercentDivisor)
    /\ i' = 1
    /\ UNCHANGED dataset
    /\ UNCHANGED runVars

LoopStep ==
    /\ pc = "loop"
    /\ i <= Len(dataset)
    /\ \E acc \in {Iterate(Acc, dataset[i].v, profession_name, dataset[i].n)} :
           /\ SetAcc(acc)
           /\ IF acc.error # ""
              THEN pc' = "error" /\ i' = i
              ELSE pc' = "loop" /\ i' = i + 1
    /\ UNCHANGED <<dataset, profession_name, one_percent>>
    /\ UNCHANGED runVars

PostProcess ==
    /\ pc = "loop"
    /\ i > Len(dataset)
    /\ LET total == NumRecords(dataset)
       IN  IF DivisionRaises(Take(SortByCount(city_counts), TopN), total)
           THEN /\ pc' = "error"
                /\ error' = "ZeroDivisionError"
                /\ UNCHANGED <<city_counts, city_salaries,
                               count_dynamic_filtered, salary_dynamic_filtered>>
           ELSE /\ pc' = "done"
                /\ error' = error
                /\ city_counts' = CityCounts(city_counts, one_percent, total)
                /\ city_salaries' = CitySalaries(city_counts, city_salaries, one_percent)
                /\ count_dynamic_filtered' =
                       IF Len(count_dynamic_filtered) = 0
                       THEN <<(<<FallbackYear, 0>>)>>
                       ELSE count_dynamic_filtered
                /\ salary_dynamic_filtered' =
                       IF Len(salary_dynamic_filtered) = 0
                       THEN <<(<<FallbackYear, MeanRepresentation>>)>>
                       ELSE salary_dynamic_filtered
    /\ UNCHANGED <<dataset, profession_name, one_percent, i,
                   salary_dynamic, count_dynamic>>
    /\ UNCHANGED runVars

(***************************************************************************)
(* The inputs of the single-pass engine.                                   *)
(***************************************************************************)
Names == {<<"a", "b">>, <<"B", "a">>}

Filters == {<<>>, <<"a", "b">>, <<"b">>, <<"c">>}

\* <<salary_from, salary_to, salary_currency>>
Salaries == {<<1, 2, "RUR">>, <<10, 30, "EUR">>, <<100, 300, "XXX">>}

Dates == {<<"2", "0", "2", "2", "-">>, <<"2", "0", "2", "1", "-">>,
          <<"2", "0", "2">>, <<"2", "0", "x", "2", "-">>}

Cities == {"M"}

Records ==
    {Vacancy(n, s[1], s[2], s[3], c, d) :
        n \in Names, s \in Salaries, c \in Cities, d \in Dates}

Init ==
    /\ pc = "idle"
    /\ dataset = <<>>
    /\ profession_name = <<>>
    /\ one_percent = 0
    /\ i = 1
    /\ error = ""
    /\ salary_dynamic = <<>>
    /\ salary_dynamic_filtered = <<>>
    /\ count_dynamic = <<>>
    /\ count_dynamic_filtered = <<>>
    /\ city_counts = <<>>
    /\ city_salaries = <<>>
    /\ files = <<>>
    /\ file = 0
    /\ stdout = <<>>
    /\ cpu_count = 0
    /\ process_batches = <<>>
    /\ processes = <<>>
    /\ q = <<>>
    /\ salary_obj = <<>>
    /\ date_str = <<>>
    /\ ret = <<>>
    /\ data = <<>>
    /\ current_date = <<>>
    /\ date_end = <<>>
    /\ rates = <<>>
    /\ pages = 0
    /\ page = 0
    /\ total_pages = 0
    /\ items = <<>>
    /\ requested = <<>>

AddRecord ==
    /\ Len(dataset) < MaxRecords
    /\ \E v \in Records : AppendVacancies(v, 1)

Construct == \E name \in Filters : Statistics(name)

Next == AddRecord \/ Construct \/ LoopStep \/ PostProcess

Spec == Init /\ [][Next]_vars

(***************************************************************************)
(* Inputs with many cities and many records: the k-th run of the dataset   *)
(* is the k-th city, with BigRun vacancies of a salary that depends on k   *)
(* or, for at most MaxOdd cities, a single better paid vacancy.            *)
(***************************************************************************)
CityNames == <<"c01", "c02", "c03", "c04", "c05", "c06", "c07", "c08",
               "c09", "c10", "c11", "c12", "c13">>

CityVacancy(k, salary) ==
    Vacancy(<<"a", "b">>, salary, salary, "RUR", CityNames[k],
            <<"2", "0", "2", "2", "-">>)

OddRuns(ds) == Cardinality({k \in DOMAIN ds : ds[k].n # BigRun})

AddCityRun ==
    /\ Len(dataset) < MaxCities
    /\ LET k == Len(dataset) + 1
       IN  \/ AppendVacancies(CityVacancy(k, 100 + 10 * (k % 4)), BigRun)
           \/ /\ OddRuns(dataset) < MaxOdd
              /\ AppendVacancies(CityVacancy(k, 900), 1)

ConstructCity == Statistics(<<"a">>)

NextCity == AddCityRun \/ ConstructCity \/ LoopStep \/ PostProcess

SpecCity == Init /\ [][NextCity]_vars

(***************************************************************************)
(* What the claims speak of, stated over the input alone.                  *)
(***************************************************************************)
RECURSIVE SumSeq(_)
SumSeq(s) == IF s = <<>> THEN 0 ELSE SumSeq(Front(s)) + Last(s)

\* the runs the loop has consumed
Processed == SubSeq(dataset, 1, i - 1)

YearOf(v) == ParseInt(Take(v.published_at, 4)).val

AllInYear(ds, y) ==
    \A k \in DOMAIN ds :
        ParseInt(Take(ds[k].v.published_at, 4)).ok /\ YearOf(ds[k].v) = y

\* (salary_from + salary_to) * rate, in 1/20000 of a rouble: twice the mean
\* of the bounds times the rate in ten-thousandths
ExactConverted(v) ==
    (v.salary_to + v.salary_from) * currency_to_rub[v.salary_currency]

TruncatedConverted(v) == ExactConverted(v) \div 20000

\* sub occurs in s: s = a \o sub \o b for some a and b
IsSubstring(sub, s) ==
    \E a \in 0..Len(s), b \in 0..Len(s) :
        /\ a + Len(sub) + b = Len(s)
        /\ \A k \in 1..Len(sub) : s[a + k] = sub[k]

\* C1 as claimed: the mean of a single-year input is the mean of
\* (salary_from + salary_to) / 2 * rate, with nothing else done per record.
C1_MeanOfExactSalaries ==
    (pc = "done" /\ dataset # <<>>) =>
        \A y \in Keys(salary_dynamic) :
            AllInYear(dataset, y) =>
                LET m == mean(Get(salary_dynamic, y, MeanRepresentation))
                IN  m[1] * 20000 * NumRecords(dataset) =
                    m[2] * SumSeq([k \in DOMAIN dataset |->
                                     dataset[k].n * ExactConverted(dataset[k].v)])

\* C1 amended: for a non-empty input whose records all fall in one year,
\* salary_dynamic[year] holds the number of records and the sum of the
\* per-record salaries, each truncated to an integer after conversion, so
\* its mean is the arithmetic mean of the truncated converted salaries.
C1_MeanOfTruncatedSalaries ==
    (pc = "done" /\ dataset # <<>>) =>
        \A y \in Keys(salary_dynamic) :
            AllInYear(dataset, y) =>
                LET acc == Get(salary_dynamic, y, MeanRepresentation)
                    total == SumSeq([k \in DOMAIN dataset |->
                                dataset[k].n * TruncatedConverted(dataset[k].v)])
                IN  /\ acc.count = NumRecords(dataset)
                    /\ acc.sum = total
                    /\ mean(acc) = <<total, NumRecords(dataset)>>

C1_Witness ==
    /\ pc = "done"
    /\ Len(dataset) = 2
    /\ AllInYear(dataset, 2022)
    /\ dataset[1].v.salary_currency # dataset[2].v.salary_currency
    /\ \E k \in DOMAIN dataset : ExactConverted(dataset[k].v) % 20000 # 0
    /\ Get(salary_dynamic, 2022, MeanRepresentation).count = 2

\* the records of year y among ds whose name contains the filter
MatchingIn(ds, y) ==
    {k \in DOMAIN ds :
        /\ ParseInt(Take(ds[k].v.published_at, 4)).ok
        /\ YearOf(ds[k].v) = y
        /\ IsSubstring(profession_name, ds[k].v.name)}

MatchedYears(ds) ==
    {YearOf(ds[k].v) : k \in {j \in DOMAIN ds :
                                IsSubstring(profession_name, ds[j].v.name)}}

\* C2: as long as the filtered maps hold what was computed from the data,
\* their years are the years of the consumed records whose name contains
\* the filter, count_dynamic_filtered[y] is the number of those records and
\* salary_dynamic_filtered[y] their count and the sum of their salaries;
\* records whose name does not contain the filter leave no trace in them.
C2_FilterCorrectness ==
    (pc \in {"loop", "done"} /\ MatchedYears(Processed) # {}) =>
        /\ Keys(count_dynamic_filtered) = MatchedYears(Processed)
        /\ Keys(salary_dynamic_filtered) = MatchedYears(Processed)
        /\ \A y \in MatchedYears(Processed) :
             LET hits == MatchingIn(Processed, y)
                 hit(k) == IF k \in hits THEN Processed[k].n ELSE 0
                 acc == Get(salary_dynamic_filtered, y, MeanRepresentation)
             IN  /\ Get(count_dynamic_filtered, y, 0) =
                        SumSeq([k \in DOMAIN Processed |-> hit(k)])
                 /\ acc.count = SumSeq([k \in DOMAIN Processed |-> hit(k)])
                 /\ acc.sum =
                        SumSeq([k \in DOMAIN Processed |->
                                  hit(k) * TruncatedConverted(Processed[k].v)])

\* a filter that is inside one name, differs by case from another, and two
\* years, one of which has no match
C2_Witness ==
    /\ pc = "done"
    /\ profession_name = <<"b">>
    /\ Len(dataset) = 2
    /\ dataset[1].v.name = <<"B", "a">>
    /\ dataset[2].v.name = <<"a", "b">>
    /\ YearOf(dataset[1].v) # YearOf(dataset[2].v)
    /\ count_dynamic_filtered = <<(<<YearOf(dataset[2].v), 1>>)>>
    /\ Len(count_dynamic) = 2

NoRecordMatches ==
    \A k \in DOMAIN dataset : ~IsSubstring(profession_name, dataset[k].v.name)

\* C6: when the filter is contained in no record's name, the finished
\* engine has count_dynamic_filtered = {2022: 0} and salary_dynamic_filtered
\* with the single key 2022, whose mean() is 0, whatever years the data has.
C6_EmptyFilterFallback ==
    (pc = "done" /\ NoRecordMatches) =>
        /\ count_dynamic_filtered = <<(<<2022, 0>>)>>
        /\ Len(salary_dynamic_filtered) = 1
        /\ salary_dynamic_filtered[1][1] = 2022
        /\ salary_dynamic_filtered[1][2].count = 0
        /\ mean(salary_dynamic_filtered[1][2]) = <<0, 1>>

\* two records of two years other than 2022, none matching the filter
C6_Witness ==
    /\ pc = "done"
    /\ Len(dataset) = 2
    /\ NoRecordMatches
    /\ Keys(count_dynamic) = {2021, 202}
    /\ count_dynamic_filtered = <<(<<2022, 0>>)>>

\* C7: on a dataset with no vacancies the engine raises nothing, its
\* threshold is 0, it can always finish, and it finishes with empty year
\* maps, empty city maps and the fallback filtered maps.
C7_ZeroInputRecords ==
    (pc # "idle" /\ dataset = <<>>) =>
        /\ pc \in {"loop", "done"}
        /\ error = ""
        /\ one_percent = 0
        /\ pc = "loop" => ENABLED PostProcess
        /\ pc = "done" =>
             /\ salary_dynamic = <<>>
             /\ count_dynamic = <<>>
             /\ city_counts = <<>>
             /\ city_salaries = <<>>
             /\ count_dynamic_filtered = <<(<<2022, 0>>)>>
             /\ salary_dynamic_filtered = <<(<<2022, [sum |-> 0, count |-> 0]>>)>>

C7_Witness ==
    /\ pc = "done"
    /\ dataset = <<>>
    /\ profession_name = <<"a", "b">>
    /\ one_percent = 0

UnknownCurrency(v) == v.salary_currency \notin DOMAIN currency_to_rub

\* the number of records the year buckets hold
RecordsInBuckets == SumSeq([k \in DOMAIN count_dynamic |-> count_dynamic[k][2]])

\* C8: the loop never moves past a record whose currency is no key of the
\* table, so an input holding one never yields a finished Statistics; when
\* the lookup fails the engine stops at that record with KeyError and the
\* buckets hold only the records before it.
C8_UnknownCurrencyFatal ==
    /\ \A k \in DOMAIN Processed : ~UnknownCurrency(Processed[k].v)
    /\ pc = "done" => Processed = dataset
    /\ (pc = "error" /\ error = "KeyError") =>
          /\ UnknownCurrency(dataset[i].v)
          /\ RecordsInBuckets = NumRecords(Processed)
    /\ (pc = "error" /\ i \in DOMAIN dataset /\ UnknownCurrency(dataset[i].v)) =>
          ~ENABLED Next

\* the unknown currency is met on the second record, after one good record
C8_Witness ==
    /\ pc = "error"
    /\ error = "KeyError"
    /\ i = 2
    /\ Len(dataset) = 2
    /\ UnknownCurrency(dataset[2].v)
    /\ RecordsInBuckets = 1

WellFormedTimestamp(d) == Len(d) >= 4 /\ \A k \in 1..4 : d[k] \in Digits

\* C9 as claimed: no record whose published_at is shorter than 4 characters
\* or does not start with 4 digits is ever put into a year bucket: the loop
\* never moves past such a record.
C9_MalformedTimestampFatal ==
    \A k \in DOMAIN Processed : WellFormedTimestamp(Processed[k].v.published_at)

(***************************************************************************)
(* The city rankings, stated over the input alone.                         *)
(***************************************************************************)
SeenCities == {dataset[k].v.area_name : k \in DOMAIN dataset}

CityCount(c) ==
    SumSeq([k \in DOMAIN dataset |->
              IF dataset[k].v.area_name = c THEN dataset[k].n ELSE 0])

CitySum(c) ==
    SumSeq([k \in DOMAIN dataset |->
              IF dataset[k].v.area_name = c
              THEN dataset[k].n * TruncatedConverted(dataset[k].v) ELSE 0])

FirstSeen(c) ==
    CHOOSE k \in DOMAIN dataset :
        /\ dataset[k].v.area_name = c
        /\ \A j \in 1..(k - 1) : dataset[j].v.area_name # c

\* per city: its count, the sum of its salaries, the index of its first record
\* (the formulas below bind it once, as  \A st \in {CityStats})
CityStats ==
    [c \in SeenCities |->
        [count |-> CityCount(c), sum |-> CitySum(c), first |-> FirstSeen(c)]]

Threshold == NumRecords(dataset) \div 100

PassesThreshold(st) == {c \in DOMAIN st : st[c].count >= Threshold}

\* 1 + the number of cities of S ranked before c by count, descending, ties
\* in first-seen order
CountRank(st, S, c) ==
    1 + Cardinality({d \in S :
            \/ st[d].count > st[c].count
            \/ st[d].count = st[c].count /\ st[d].first < st[c].first})

\* the same by mean salary sum / count
MeanRank(st, S, c) ==
    1 + Cardinality({d \in S :
            \/ st[d].sum * st[c].count > st[c].sum * st[d].count
            \/ /\ st[d].sum * st[c].count = st[c].sum * st[d].count
               /\ st[d].first < st[c].first})

CitiesOf(published) == {published[k][1] : k \in DOMAIN published}

\* C4: the published city_counts holds exactly the cities that are among the
\* first 10 of all cities by count (descending, ties first seen first) and
\* whose count is at least floor(total / 100), in rank order, each with
\* count / total rounded to 4 decimals; a city ranked 11th or lower is absent.
C4_CityShareRanking ==
    pc = "done" =>
        \A total \in {NumRecords(dataset)}, st \in {CityStats} :
        \A rank \in {[c \in SeenCities |-> CountRank(st, SeenCities, c)]} :
            /\ CitiesOf(city_counts) =
                   {c \in SeenCities : rank[c] <= 10 /\ st[c].count >= total \div 100}
            /\ \A j, k \in DOMAIN city_counts :
                   j < k => rank[city_counts[j][1]] < rank[city_counts[k][1]]
            /\ \A k \in DOMAIN city_counts :
                   LET diff == city_counts[k][2] * total
                                 - st[city_counts[k][1]].count * 10000
                   IN  2 * diff <= total /\ 0 - 2 * diff <= total

\* eleven cities: the eleventh by count is cut by the truncation, the tenth
\* is removed by the threshold of 2
C4_Witness ==
    /\ pc = "done"
    /\ Cardinality(SeenCities) = 11
    /\ Threshold = 2
    /\ Len(city_counts) = 9
    /\ \E c \in SeenCities :
           CountRank(CityStats, SeenCities, c) = 10 /\ CityCount(c) = 1
    /\ \A k \in DOMAIN city_counts : CityCount(city_counts[k][1]) = BigRun

\* C5 as claimed: the published city_salaries holds the cities that are
\* among the 10 highest mean salaries of all cities and pass the threshold.
C5_TopTenOfAllThenFilter ==
    pc = "done" =>
        \A st \in {CityStats} :
            CitiesOf(city_salaries) =
                {c \in SeenCities :
                    MeanRank(st, SeenCities, c) <= 10 /\ st[c].count >= Threshold}

\* C5 amended: the published city_salaries is obtained by first filtering
\* the cities to those whose count is at least floor(total / 100), then
\* ranking these by mean salary descending (ties first seen first) and
\* keeping the first 10, each with its sum and count; so a city outside the
\* 10 highest means of all cities appears when cities above it fail the
\* threshold.
C5_FilterThenTopTen ==
    pc = "done" =>
        \A st \in {CityStats} :
        \A passing \in {PassesThreshold(st)} :
        \A rank \in {[c \in passing |-> MeanRank(st, passing, c)]} :
            /\ CitiesOf(city_salaries) = {c \in passing : rank[c] <= 10}
            /\ \A j, k \in DOMAIN city_salaries :
                   j < k => rank[city_salaries[j][1]] < rank[city_salaries[k][1]]
            /\ \A k \in DOMAIN city_salaries :
                   city_salaries[k][2] =
                       [sum |-> st[city_salaries[k][1]].sum,
                        count |-> st[city_salaries[k][1]].count]

\* ten cities pass the threshold and are published, one of them is eleventh
\* by mean among all cities
C5_Witness ==
    /\ pc = "done"
    /\ Len(city_salaries) = 10
    /\ Threshold = 2
    /\ \E k \in DOMAIN city_salaries :
           MeanRank(CityStats, SeenCities, city_salaries[k][1]) = 11

(***************************************************************************)
(* csv files and DataSetReader.  A file is the list of its lines as        *)
(* csv.reader yields them, a line is the list of its cells, a cell is a    *)
(* str.  The cells of the inputs hold no line break inside a cell, so the  *)
(* split('\n') of a cell has one element.                                  *)
(***************************************************************************)
MaxFiles == 2

MaxLines == 4

MaxCpu == 4

SalaryParameters == 4

name_column == <<"n", "a", "m", "e">>

salary_from_column == <<"s", "a", "l", "a", "r", "y", "_", "f", "r", "o", "m">>

salary_to_column == <<"s", "a", "l", "a", "r", "y", "_", "t", "o">>

salary_currency_column ==
    <<"s", "a", "l", "a", "r", "y", "_", "c", "u", "r", "r", "e", "n", "c", "y">>

area_name_column == <<"a", "r", "e", "a", "_", "n", "a", "m", "e">>

published_at_column ==
    <<"p", "u", "b", "l", "i", "s", "h", "e", "d", "_", "a", "t">>

\* re.sub('<.*?>', '', s): every "<" with a ">" after it goes, up to the
\* nearest ">"
RECURSIVE RemoveTags(_)
RemoveTags(s) ==
    IF s = <<>> THEN <<>>
    ELSE IF Head(s) = "<" /\ \E k \in 2..Len(s) : s[k] = ">"
    THEN LET close == CHOOSE k \in 2..Len(s) :
                          s[k] = ">" /\ \A j \in 2..(k - 1) : s[j] # ">"
         IN  RemoveTags(SubSeq(s, close + 1, Len(s)))
    ELSE <<Head(s)>> \o RemoveTags(Tail(s))

\* re.sub(' +', ' ', s)
RECURSIVE CollapseSpaces(_)
CollapseSpaces(s) ==
    IF Len(s) < 2 THEN s
    ELSE IF s[1] = " " /\ s[2] = " " THEN CollapseSpaces(Tail(s))
    ELSE <<Head(s)>> \o CollapseSpaces(Tail(s))

\* s.strip()
RECURSIVE Strip(_)
Strip(s) ==
    IF s # <<>> /\ Head(s) = " " THEN Strip(Tail(s))
    ELSE IF s # <<>> /\ Last(s) = " " THEN Strip(Front(s))
    ELSE s

CleanCell(item) == Strip(CollapseSpaces(RemoveTags(item)))

\* DataSetReader._read_csv: the header and the other lines; no line at all
\* raises Exception("Пустой файл")
_read_csv(path) ==
    IF path = <<>>
    THEN [error |-> "Exception", header |-> <<>>, lines |-> <<>>]
    ELSE [error |-> "", header |-> Head(path), lines |-> Tail(path)]

\* the dict of one line: d[header[i]] = the cleaned i-th cell
RECURSIVE LineDict(_, _)
LineDict(header, line) ==
    IF line = <<>> THEN <<>>
    ELSE Put(LineDict(header, Front(line)), header[Len(line)],
             CleanCell(Last(line)))

\* '' in line or len(line) != len(header)
IsDropped(header, line) ==
    \/ \E j \in DOMAIN line : line[j] = <<>>
    \/ Len(line) # Len(header)

\* DataSetReader._parse_csv
RECURSIVE _parse_csv(_, _)
_parse_csv(header, lines) ==
    IF lines = <<>> THEN <<>>
    ELSE LET lines_clean == _parse_csv(header, Front(lines))
         IN  IF IsDropped(header, Last(lines)) THEN lines_clean
             ELSE Append(lines_clean, LineDict(header, Last(lines)))

\* Salary(*args): __init__ takes salary_from, salary_to, salary_gross and
\* salary_currency, none with a default; any other number of arguments
\* raises TypeError
Salary(args) ==
    IF Len(args) # SalaryParameters
    THEN [error |-> "TypeError"]
    ELSE [error |-> "", salary_from |-> args[1], salary_to |-> args[2],
          salary_gross |-> args[3], salary_currency |-> args[4]]

\* float(cell) of a cell of digits
Number(cell) == DecimalValue(cell)

\* a currency code or a city name is kept as a string in the vacancies
Atom(cell) ==
    CASE cell = <<"R", "U", "R">> -> "RUR"
      [] cell = <<"E", "U", "R">> -> "EUR"
      [] cell = <<"M">> -> "M"
      [] OTHER -> "XXX"

\* the vacancy a line dict with all six columns stands for
VacancyOfLine(l) ==
    Vacancy(Get(l, name_column, <<>>),
            Number(Get(l, salary_from_column, <<>>)),
            Number(Get(l, salary_to_column, <<>>)),
            Atom(Get(l, salary_currency_column, <<>>)),
            Atom(Get(l, area_name_column, <<>>)),
            Get(l, published_at_column, <<>>))

\* one iteration of the loop of _convert_to_dataset: the three subscripts,
\* the call of Salary with three arguments, then the Vacancy
ConvertLine(l) ==
    IF \E c \in {salary_from_column, salary_to_column, salary_currency_column} :
           ~Has(l, c)
    THEN [error |-> "KeyError"]
    ELSE LET salary == Salary(<<Get(l, salary_from_column, <<>>),
                                Get(l, salary_to_column, <<>>),
                                Get(l, salary_currency_column, <<>>)>>)
         IN  IF salary.error # "" THEN [error |-> salary.error]
             ELSE IF \E c \in {name_column, area_name_column, published_at_column} :
                         ~Has(l, c)
             THEN [error |-> "KeyError"]
             ELSE [error |-> "", vacancy |-> VacancyOfLine(l)]

\* DataSetReader._convert_to_dataset
RECURSIVE _convert_to_dataset(_)
_convert_to_dataset(lines) ==
    IF lines = <<>> THEN [error |-> "", vacancies_objects |-> <<>>]
    ELSE LET before == _convert_to_dataset(Front(lines))
             line   == ConvertLine(Last(lines))
         IN  IF before.error # "" THEN before
             ELSE IF line.error # ""
             THEN [error |-> line.error, vacancies_objects |-> <<>>]
             ELSE [error |-> "",
                   vacancies_objects |->
                       Append(before.vacancies_objects, line.vacancy)]

\* DataSetReader(path).read(); a path stands for the lines found there
read(path) ==
    LET csv == _read_csv(path)
    IN  IF csv.error # ""
        THEN [error |-> csv.error, vacancies_objects |-> <<>>]
        ELSE _convert_to_dataset(_parse_csv(csv.header, csv.lines))

\* a list of vacancies as runs of length one
Runs(vacancies) == [k \in DOMAIN vacancies |-> [v |-> vacancies[k], n |-> 1]]

(***************************************************************************)
(* The directory of csv files.                                             *)
(***************************************************************************)
Headers ==
    {<<name_column, salary_from_column, salary_to_column,
       salary_currency_column, area_name_column, published_at_column>>,
     <<name_column, salary_from_column, salary_to_column,
       area_name_column, published_at_column>>}

Rows ==
    {<<(<<"a", "b">>), (<<"1", "0", "0">>), (<<"3", "0", "0">>),
       (<<"R", "U", "R">>), (<<"M">>), (<<"2", "0", "2", "2", "-">>)>>,
     <<(<<"<", "i", ">", "b", " ">>), (<<"3", "0", "0">>), (<<"5", "0", "0">>),
       (<<"R", "U", "R">>), (<<"M">>), (<<"2", "0", "2", "2", "-">>)>>,
     <<(<<"a", "b">>), (<<"1", "0", "0">>), (<<"3", "0", "0">>),
       (<<"R", "U", "R">>), (<<>>), (<<"2", "0", "2", "2", "-">>)>>,
     <<(<<"a", "b">>), (<<"1", "0", "0">>), (<<"3", "0", "0">>),
       (<<"M">>), (<<"2", "0", "2", "1", "-">>)>>}

\* the lines of all files of the directory
RECURSIVE TotalLines(_)
TotalLines(fs) ==
    IF fs = <<>> THEN 0 ELSE TotalLines(Front(fs)) + Len(Last(fs))

\* a new, empty file in the directory
AddFile ==
    /\ pc = "idle"
    /\ Len(files) < MaxFiles
    /\ files' = Append(files, <<>>)
    /\ UNCHANGED <<pc, dataset, profession_name, one_percent, i, error,
                   salary_dynamic, salary_dynamic_filtered,
                   count_dynamic, count_dynamic_filtered,
                   city_counts, city_salaries,
                   file, stdout, cpu_count, process_batches, processes, q>>
    /\ UNCHANGED libVars

\* one more line in the newest file: its header first, rows after it
AddLine ==
    /\ pc = "idle"
    /\ files # <<>>
    /\ TotalLines(files) < MaxLines
    /\ \E line \in (IF Last(files) = <<>> THEN Headers ELSE Rows) :
           files' = [files EXCEPT ![Len(files)] = Append(@, line)]
    /\ UNCHANGED <<pc, dataset, profession_name, one_percent, i, error,
                   salary_dynamic, salary_dynamic_filtered,
                   count_dynamic, count_dynamic_filtered,
                   city_counts, city_salaries,
                   file, stdout, cpu_count, process_batches, processes, q>>
    /\ UNCHANGED libVars

(***************************************************************************)
(* stats.main: read the file, build the Statistics, print them, write the  *)
(* reports.                                                                *)
(***************************************************************************)
\* int(m) of a MeanRepresentation, which is also how print shows it
IntOfMean(m) == TruncDiv(mean(m)[1], mean(m)[2])

\* a map of MeanRepresentation as print shows it
PrintedMeans(d) == [k \in DOMAIN d |-> <<d[k][1], IntOfMean(d[k][2])>>]

\* main() up to the loop of Statistics._generate
stats_main ==
    /\ pc = "idle"
    /\ \E f \in DOMAIN files, name \in Filters :
         \E ds \in {read(files[f])} :
           /\ file' = f
           /\ IF ds.error # ""
              THEN /\ pc' = "error"
                   /\ error' = ds.error
                   /\ UNCHANGED <<dataset, profession_name, one_percent, i,
                                  salary_dynamic, salary_dynamic_filtered,
                                  count_dynamic, count_dynamic_filtered,
                                  city_counts, city_salaries>>
              ELSE /\ pc' = "loop"
                   /\ dataset' = Runs(ds.vacancies_objects)
                   /\ profession_name' = name
                   /\ SetAcc(EmptyAcc)
                   /\ one_percent' =
                          TruncDiv(Len(ds.vacancies_objects), PercentDivisor)
                   /\ i' = 1
    /\ UNCHANGED <<files, stdout, cpu_count, process_batches, processes, q>>
    /\ UNCHANGED libVars

\* Statistics.print
stats_print ==
    /\ pc = "done"
    /\ pc' = "printed"
    /\ stdout' = <<PrintedMeans(salary_dynamic), count_dynamic,
                   PrintedMeans(salary_dynamic_filtered), count_dynamic_filtered,
                   PrintedMeans(city_salaries), city_counts>>
    /\ UNCHANGED <<dataset, profession_name, one_percent, i, error,
                   salary_dynamic, salary_dynamic_filtered,
                   count_dynamic, count_dynamic_filtered,
                   city_counts, city_salaries,
                   files, file, cpu_count, process_batches, processes, q>>
    /\ UNCHANGED libVars

\* Statistics.years: the keys of salary_dynamic in insertion order
years == [k \in DOMAIN salary_dynamic |-> salary_dynamic[k][1]]

\* the filtered maps are the plain dicts {2022: ...} of the fallback
IsFallback == count_dynamic_filtered = <<(<<FallbackYear, 0>>)>>

\* d[year] for every year of the sheet: a defaultdict gains the missing years
RECURSIVE WithYears(_, _, _)
WithYears(d, ys, default) ==
    IF ys = <<>> THEN d
    ELSE LET w == WithYears(d, Front(ys), default)
         IN  IF Has(w, Last(ys)) THEN w
             ELSE Put(w, Last(ys), default)

\* Report.generate_excel and Report.generate_image as far as the program's
\* own code decides their outcome: the subscripts of the year sheet, then
\* max() over the values of the first and the third chart
generate_reports ==
    /\ pc = "printed"
    /\ \E ys \in {years} :
         IF IsFallback /\ \E k \in DOMAIN ys : ys[k] # FallbackYear
         THEN /\ pc' = "error"
              /\ error' = "KeyError"
              /\ UNCHANGED <<salary_dynamic_filtered, count_dynamic_filtered>>
         ELSE /\ salary_dynamic_filtered' =
                     WithYears(salary_dynamic_filtered, ys, MeanRepresentation)
              /\ count_dynamic_filtered' =
                     WithYears(count_dynamic_filtered, ys, 0)
              /\ IF salary_dynamic = <<>> \/ city_salaries = <<>>
                 THEN pc' = "error" /\ error' = "ValueError"
                 ELSE pc' = "reported" /\ error' = error
    /\ UNCHANGED <<dataset, profession_name, one_percent, i,
                   salary_dynamic, count_dynamic, city_counts, city_salaries>>
    /\ UNCHANGED runVars

\* read() returns a dataset only for a file without a clean row, so the
\* loop over the vacancies has no iteration in a run of main
NextMain ==
    AddFile \/ AddLine \/ stats_main \/ PostProcess \/ stats_print
      \/ generate_reports

SpecMain == Init /\ [][NextMain]_vars

(***************************************************************************)
(* mp_stats.py and cf_stats.py: one result per file, assembled by year.    *)
(***************************************************************************)
Vacs == {<<"a">>, <<"c">>}

\* one iteration of the loop over the vacancies of a file
ChunkBody(acc, v, vac) ==
    IF ~Lookup(v.salary_currency).ok
    THEN [acc EXCEPT !.error = "KeyError"]
    ELSE LET salary == SalaryInRub(v)
             a1 == [acc EXCEPT !.avg_salary = add(@, salary),
                               !.count = @ + 1]
         IN  IF Contains(vac, v.name)
             THEN [a1 EXCEPT !.count_filtered = @ + 1,
                             !.avg_salary_filtered = add(@, salary)]
             ELSE a1

RECURSIVE ChunkLoop(_, _)
ChunkLoop(vacancies, vac) ==
    IF vacancies = <<>>
    THEN [error |-> "", avg_salary |-> MeanRepresentation,
          avg_salary_filtered |-> MeanRepresentation,
          count |-> 0, count_filtered |-> 0]
    ELSE LET acc == ChunkLoop(Front(vacancies), vac)
         IN  IF acc.error # "" THEN acc
             ELSE ChunkBody(acc, Last(vacancies), vac)

\* the body of process_start's loop over its files, which is process_chunk
\* of cf_stats.py: the tuple (year, (mean, mean, count, count)) or the
\* exception raised
process_chunk(path, vac) ==
    LET ds == read(path)
    IN  IF ds.error # "" THEN [error |-> ds.error]
        ELSE IF ds.vacancies_objects = <<>> THEN [error |-> "IndexError"]
        ELSE
          LET parsed == ParseInt(Take(ds.vacancies_objects[1].published_at, 4))
              acc    == ChunkLoop(ds.vacancies_objects, vac)
          IN  IF ~parsed.ok THEN [error |-> "ValueError"]
              ELSE IF acc.error # "" THEN [error |-> acc.error]
              ELSE [error |-> "",
                    result |-> <<parsed.val,
                                 <<IntOfMean(acc.avg_salary),
                                   IntOfMean(acc.avg_salary_filtered),
                                   acc.count, acc.count_filtered>> >>]

\* process_batches[k]: the files whose position i in the listing has
\* i % process_count = k - 1
Batch(k, process_count) ==
    SelectSeq([j \in DOMAIN files |-> j],
              LAMBDA j : (j - 1) % process_count = k - 1)

\* results.sort(key=lambda x: x[0]): stable, ascending by year
RECURSIVE SortByYear(_)
SortByYear(results) ==
    IF results = <<>> THEN <<>>
    ELSE LET sorted == SortByYear(Front(results))
             x == Last(results)
             n == Cardinality({k \in DOMAIN sorted : sorted[k][1] <= x[1]})
         IN  SubSeq(sorted, 1, n) \o <<x>> \o SubSeq(sorted, n + 1, Len(sorted))

\* dict(map(lambda x: (x[0], x[1][field]), results))
RECURSIVE YearDict(_, _)
YearDict(results, field) ==
    IF results = <<>> THEN <<>>
    ELSE Put(YearDict(Front(results), field),
             Last(results)[1], Last(results)[2][field])

\* the four dicts of main and the four lines it prints
Assemble(results) ==
    /\ salary_dynamic' = YearDict(SortByYear(results), 1)
    /\ salary_dynamic_filtered' = YearDict(SortByYear(results), 2)
    /\ count_dynamic' = YearDict(SortByYear(results), 3)
    /\ count_dynamic_filtered' = YearDict(SortByYear(results), 4)
    /\ stdout' = <<YearDict(SortByYear(results), 1),
                   YearDict(SortByYear(results), 3),
                   YearDict(SortByYear(results), 2),
                   YearDict(SortByYear(results), 4)>>

\* mp_stats.main up to the joins: the batches, the queue, the processes
mp_main ==
    /\ pc = "idle"
    /\ \E n \in 1..MaxCpu, vac \in Vacs :
         LET process_count == n \div 2
         IN  /\ cpu_count' = n
             /\ profession_name' = vac
             /\ IF process_count = 0 /\ files # <<>>
                THEN /\ pc' = "error"
                     /\ error' = "ZeroDivisionError"
                     /\ process_batches' = <<>>
                     /\ processes' = <<>>
                ELSE /\ pc' = "mp_join"
                     /\ error' = error
                     /\ process_batches' =
                            [k \in 1..process_count |-> Batch(k, process_count)]
                     /\ processes' =
                            [k \in 1..process_count |->
                                [state |-> "started", file |-> 1, exitcode |-> 0,
                                 buffer |-> <<>>]]
    /\ UNCHANGED <<dataset, one_percent, i,
                   salary_dynamic, salary_dynamic_filtered,
                   count_dynamic, count_dynamic_filtered,
                   city_counts, city_salaries, files, file, stdout, q>>
    /\ UNCHANGED libVars

\* process k handles the next file of its batch; an exception ends the
\* process with exit code 1 and is seen by nobody else
process_start(k) ==
    /\ pc = "mp_join"
    /\ processes[k].state = "started"
    /\ processes[k].file <= Len(process_batches[k])
    /\ \E r \in {process_chunk(files[process_batches[k][processes[k].file]],
                               profession_name)} :
         IF r.error # ""
         THEN /\ processes' = [processes EXCEPT ![k].state = "exited",
                                                ![k].exitcode = 1]
              /\ q' = q
         ELSE /\ processes' = [processes EXCEPT ![k].file = @ + 1]
              /\ q' = Append(q, r.result)
    /\ UNCHANGED <<pc, dataset, profession_name, one_percent, i, error,
                   salary_dynamic, salary_dynamic_filtered,
                   count_dynamic, count_dynamic_filtered,
                   city_counts, city_salaries,
                   files, file, stdout, cpu_count, process_batches>>
    /\ UNCHANGED libVars

\* process k has no file left and returns from process_start
process_exit(k) ==
    /\ pc = "mp_join"
    /\ processes[k].state = "started"
    /\ processes[k].file > Len(process_batches[k])
    /\ processes' = [processes EXCEPT ![k].state = "exited"]
    /\ UNCHANGED <<pc, dataset, profession_name, one_percent, i, error,
                   salary_dynamic, salary_dynamic_filtered,
                   count_dynamic, count_dynamic_filtered,
                   city_counts, city_salaries,
                   files, file, stdout, cpu_count, process_batches, q>>
    /\ UNCHANGED libVars

\* the joins taken away: main goes on to the queue at once
joinWithoutWaiting ==
    /\ pc = "mp_join"
    /\ pc' = "mp_drain"
    /\ UNCHANGED <<dataset, profession_name, one_percent, i, error,
                   salary_dynamic, salary_dynamic_filtered,
                   count_dynamic, count_dynamic_filtered,
                   city_counts, city_salaries>>
    /\ UNCHANGED runVars

\* for p in processes: p.join()  returns once every process has exited
join ==
    /\ pc = "mp_join"
    /\ \A k \in DOMAIN processes : processes[k].state = "exited"
    /\ pc' = "mp_drain"
    /\ UNCHANGED <<dataset, profession_name, one_percent, i, error,
                   salary_dynamic, salary_dynamic_filtered,
                   count_dynamic, count_dynamic_filtered,
                   city_counts, city_salaries>>
    /\ UNCHANGED runVars

\* the queue is emptied into results; sort, four dicts, four prints
mp_assemble ==
    /\ pc = "mp_drain"
    /\ pc' = "mp_done"
    /\ q' = <<>>
    /\ Assemble(q)
    /\ UNCHANGED <<dataset, profession_name, one_percent, i, error,
                   city_counts, city_salaries,
                   files, file, cpu_count, process_batches, processes>>
    /\ UNCHANGED libVars

\* cf_stats.main: ProcessPoolExecutor(max_workers=0) raises ValueError;
\* list(executor.map(...)) raises the exception of the first file, in the
\* order of the listing, whose process_chunk raised
cf_main ==
    /\ pc = "idle"
    /\ \E n \in 1..MaxCpu, vac \in Vacs :
         \E results \in {[k \in DOMAIN files |-> process_chunk(files[k], vac)]} :
           /\ cpu_count' = n
           /\ profession_name' = vac
           /\ IF n \div 2 = 0
              THEN /\ pc' = "error"
                   /\ error' = "ValueError"
                   /\ UNCHANGED <<salary_dynamic, salary_dynamic_filtered,
                                  count_dynamic, count_dynamic_filtered, stdout>>
              ELSE IF \E k \in DOMAIN results : results[k].error # ""
              THEN /\ pc' = "error"
                   /\ error' = results[CHOOSE k \in DOMAIN results :
                                   /\ results[k].error # ""
                                   /\ \A j \in 1..(k - 1) : results[j].error = ""].error
                   /\ UNCHANGED <<salary_dynamic, salary_dynamic_filtered,
                                  count_dynamic, count_dynamic_filtered, stdout>>
              ELSE /\ pc' = "cf_done"
                   /\ error' = error
                   /\ Assemble([k \in DOMAIN results |-> results[k].result])
    /\ UNCHANGED <<dataset, one_percent, i, city_counts, city_salaries,
                   files, file, process_batches, processes, q>>
    /\ UNCHANGED libVars

NextMP ==
    \/ AddFile
    \/ AddLine
    \/ mp_main
    \/ \E k \in DOMAIN processes : process_start(k)
    \/ \E k \in DOMAIN processes : process_exit(k)
    \/ join
    \/ mp_assemble
    \/ cf_main

SpecMP == Init /\ [][NextMP]_vars

(***************************************************************************)
(* What the claims on files and shards speak of.                           *)
(***************************************************************************)
\* the vacancies the rows of a file stand for, row by row
VacanciesOf(f) ==
    IF f = <<>> THEN <<>>
    ELSE LET lines == _parse_csv(Head(f), Tail(f))
         IN  [k \in DOMAIN lines |-> VacancyOfLine(lines[k])]

\* the record sequence the shards split: the files in the order of the listing
RECURSIVE AllVacancies(_)
AllVacancies(fs) ==
    IF fs = <<>> THEN <<>>
    ELSE AllVacancies(Front(fs)) \o VacanciesOf(Last(fs))

\* a non-empty shard of well-formed records: all six columns, one row at
\* least, no row dropped
IsShard(f) ==
    /\ Len(f) >= 2
    /\ Len(Head(f)) = 6
    /\ \A k \in 2..Len(f) : ~IsDropped(Head(f), f[k])

RECURSIVE SumSalaries(_)
SumSalaries(vs) ==
    IF vs = <<>> THEN 0
    ELSE SumSalaries(Front(vs)) + TruncatedConverted(Last(vs))

\* int(mean) of the converted salaries of vs
IntMeanOf(vs) == IF vs = <<>> THEN 0 ELSE SumSalaries(vs) \div Len(vs)

\* C3 as claimed: when a partitioned reducer (mp_stats.main or cf_stats.main)
\* has assembled and printed its year maps for a listing of non-empty shards,
\* the value of every year of the records is the one a single shard holding
\* all the records gives: the number of the year's records, the mean of their
\* salaries, and the same two over the records whose name contains the
\* selected vacancy, also when several shards hold records of that year.
C3_MergeEqualsSingleShard ==
    (pc \in {"mp_done", "cf_done"} /\ \A k \in DOMAIN files : IsShard(files[k])) =>
    \A recs \in {AllVacancies(files)} :
      \A y \in {YearOf(recs[k]) : k \in DOMAIN recs} :
        \A inYear \in {SelectSeq(recs, LAMBDA v : YearOf(v) = y)} :
          \A matching \in {SelectSeq(inYear,
                              LAMBDA v : IsSubstring(profession_name, v.name))} :
            /\ Get(count_dynamic, y, -1) = Len(inYear)
            /\ Get(salary_dynamic, y, -1) = IntMeanOf(inYear)
            /\ Get(count_dynamic_filtered, y, -1) = Len(matching)
            /\ Get(salary_dynamic_filtered, y, -1) = IntMeanOf(matching)

\* C10 as claimed: a run of stats.main on a file without a data row (no line
\* at all, or the header alone) never produces a result: nothing is printed
\* and no Statistics object is completed.
C10_EmptyInputFatal ==
    (file # 0 /\ Len(files[file]) <= 1) =>
        (stdout = <<>> /\ pc \notin {"done", "printed", "reported"})

\* the processing of the k-th file of the listing raises
ShardFails(k) == process_chunk(files[k], profession_name).error # ""

\* C11 as claimed: a partitioned reducer (mp_stats.main or cf_stats.main)
\* that builds and prints its year maps has had no failing shard: as soon as
\* the processing of one file raises in a worker, the reduction fails and
\* nothing is printed.
C11_AllOrNothing ==
    pc \in {"mp_done", "cf_done"} => \A k \in DOMAIN files : ~ShardFails(k)

C13_YearsAscending ==
    (pc = "done" /\ \A k \in DOMAIN dataset :
                       WellFormedTimestamp(dataset[k].v.published_at)) =>
        \A a \in DOMAIN years, b \in DOMAIN years : a < b => years[a] < years[b]

(***************************************************************************)
(* table.py: Salary.get_salary_in_rub and convert_date, called on their    *)
(* own as the tests of test.py call them.  The currency table of table.py  *)
(* has the entries of the one of stats.py.                                 *)
(***************************************************************************)
\* what a call of one of these functions leaves alone
restVars ==
    <<dataset, profession_name, one_percent, i, error,
      salary_dynamic, salary_dynamic_filtered,
      count_dynamic, count_dynamic_filtered, city_counts, city_salaries,
      files, file, stdout, cpu_count, process_batches, processes, q, hhVars>>

\* fractions a = <<num, den>> with num >= 0 and den > 0, in lowest terms
RECURSIVE GCD(_, _)
GCD(a, b) == IF b = 0 THEN a ELSE GCD(b, a % b)

Normalize(a) == <<a[1] \div GCD(a[1], a[2]), a[2] \div GCD(a[1], a[2])>>

FracEq(a, b) == Normalize(a) = Normalize(b)

FracMul(a, b) ==
    Normalize(<<Normalize(a)[1] * Normalize(b)[1],
                Normalize(a)[2] * Normalize(b)[2]>>)

\* currency_to_rub[code] as a fraction
Rate(code) == <<currency_to_rub[code], 10000>>

\* int(...) around the product, as Statistics._generate has it
get_salary_in_rub_int(self) ==
    IF self.salary_currency \notin DOMAIN currency_to_rub
    THEN [error |-> "KeyError", value |-> <<0, 1>>]
    ELSE [error |-> "",
          value |->
              LET v == FracMul(<<self.salary_to + self.salary_from, 2>>,
                               Rate(self.salary_currency))
              IN  <<v[1] \div v[2], 1>>]

\* ((self.salary_to + self.salary_from) / 2) * currency_to_rub[...]
get_salary_in_rub(self) ==
    IF self.salary_currency \notin DOMAIN currency_to_rub
    THEN [error |-> "KeyError", value |-> <<0, 1>>]
    ELSE [error |-> "",
          value |-> FracMul(<<self.salary_to + self.salary_from, 2>>,
                            Rate(self.salary_currency))]

SalaryBounds == {0, 5, 10, 20, 30, 1000, 2000, 4000}

CurrencyCodes == DOMAIN currency_to_rub \cup {"XXX"}

\* Salary(salary_from, salary_to, salary_gross, salary_currency)
NewSalary ==
    /\ pc = "idle"
    /\ \E f \in SalaryBounds, t \in SalaryBounds, g \in BOOLEAN,
          c \in CurrencyCodes :
          salary_obj' = Salary(<<f, t, g, c>>)
    /\ pc' = "salary"
    /\ UNCHANGED <<date_str, ret>>
    /\ UNCHANGED rateVars
    /\ UNCHANGED restVars

\* salary_obj.get_salary_in_rub()
call_get_salary_in_rub ==
    /\ pc = "salary"
    /\ pc' = "salary_returned"
    /\ ret' = get_salary_in_rub(salary_obj)
    /\ UNCHANGED <<salary_obj, date_str>>
    /\ UNCHANGED rateVars
    /\ UNCHANGED restVars

NextSalary == NewSalary \/ call_get_salary_in_rub

SpecSalary == Init /\ [][NextSalary]_vars

\* C14: get_salary_in_rub of a Salary whose currency is in the table returns
\* the mean of the two bounds times the rate of the currency: the mean itself
\* for RUR, 1198 for 10 and 30 in EUR, 195 for 1000 and 2000 in KZT; and the
\* call leaves every field of the Salary object as it was.
C14_SalaryNormalization ==
    /\ [](pc = "salary_returned"
             /\ salary_obj.salary_currency \in DOMAIN currency_to_rub
           => /\ ret.error = ""
              /\ \A m \in {<<salary_obj.salary_from + salary_obj.salary_to, 2>>} :
                  \A r \in {<<currency_to_rub[salary_obj.salary_currency], 10000>>} :
                    /\ \E num \in {ret.value[1]}, den \in {ret.value[2]} :
                          num * m[2] * Normalize(r)[2] = den * m[1] * Normalize(r)[1]
                    /\ salary_obj.salary_currency = "RUR" => FracEq(ret.value, m)
              /\ (salary_obj.salary_currency = "EUR"
                    /\ salary_obj.salary_from = 10 /\ salary_obj.salary_to = 30)
                  => FracEq(ret.value, <<1198, 1>>)
              /\ (salary_obj.salary_currency = "KZT"
                    /\ salary_obj.salary_from = 1000 /\ salary_obj.salary_to = 2000)
                  => FracEq(ret.value, <<195, 1>>))
    /\ [][pc = "salary" => salary_obj' = salary_obj]_vars

\* the call has returned for bounds 0 and 5 in UZS: 2.5 * 0.0055
C14_Witness ==
    /\ pc = "salary_returned"
    /\ salary_obj.salary_currency = "UZS"
    /\ salary_obj.salary_from = 0 /\ salary_obj.salary_to = 5
    /\ FracEq(ret.value, <<275, 20000>>)

(***************************************************************************)
(* table.convert_date.  "\n" is the line break.                            *)
(***************************************************************************)
\* ^(\d{4})-(\d{2})-(\d{2}) at the start of s
BeginsWithDate(s) ==
    /\ Len(s) >= 10
    /\ \A k \in {1, 2, 3, 4, 6, 7, 9, 10} : s[k] \in Digits
    /\ s[5] = "-" /\ s[8] = "-"

\* .*$ on the rest of the string: "." is any character but the line break,
\* "$" is the end of the string or the place before a line break that ends it
RestMatches(rest) ==
    \A k \in DOMAIN rest : rest[k] = "\n" => k = Len(rest)

\* re.match(r'^(\d{4})-(\d{2})-(\d{2}).*$', date_str) is not None
DateMatches(s) ==
    BeginsWithDate(s) /\ RestMatches(SubSeq(s, 11, Len(s)))

\* convert_date(date_str): match[1] of no match raises TypeError
convert_date(s) ==
    IF ~DateMatches(s) THEN [error |-> "TypeError", value |-> <<>>]
    ELSE LET result == <<DecimalValue(SubSeq(s, 1, 4)),
                         DecimalValue(SubSeq(s, 6, 7)),
                         DecimalValue(SubSeq(s, 9, 10))>>
         IN  IF result[2] < 1 \/ result[2] > 12 \/ result[3] > 31 \/ result[3] < 1
             THEN [error |-> "Exception", value |-> <<>>]
             ELSE [error |-> "", value |-> result]

YearTexts == {<<"2", "0", "2", "2">>, <<"2", "0", "a", "2">>}

MonthTexts == {<<"0", "0">>, <<"0", "1">>, <<"1", "2">>, <<"1", "3">>}

DayTexts ==
    {<<"0", "0">>, <<"0", "1">>, <<"2", "5">>, <<"3", "1">>, <<"3", "2">>,
     <<"9", "9">>}

Suffixes ==
    {<<>>, <<"T", "1", "0">>, <<"\n">>, <<"\n", "T">>, <<"T", "\n", "\n">>}

NewDate ==
    /\ pc = "idle"
    /\ \E y \in YearTexts, m \in MonthTexts, d \in DayTexts, x \in Suffixes :
          date_str' = y \o <<"-">> \o m \o <<"-">> \o d \o x
    /\ pc' = "date"
    /\ UNCHANGED <<salary_obj, ret>>
    /\ UNCHANGED rateVars
    /\ UNCHANGED restVars

call_convert_date ==
    /\ pc = "date"
    /\ pc' = "date_returned"
    /\ ret' = convert_date(date_str)
    /\ UNCHANGED <<salary_obj, date_str>>
    /\ UNCHANGED rateVars
    /\ UNCHANGED restVars

NextDate == NewDate \/ call_convert_date

SpecDate == Init /\ [][NextDate]_vars

MonthOf(s) == DecimalValue(SubSeq(s, 6, 7))

DayOf(s) == DecimalValue(SubSeq(s, 9, 10))

\* C15: convert_date of a string that begins with YYYY-MM-DD returns the list
\* [year, month, day] when the month is in 1..12 and the day in 1..31, and
\* raises an exception when the month or the day is outside its range.
C15_ConvertDate ==
    (pc = "date_returned" /\ BeginsWithDate(date_str)) =>
        IF MonthOf(date_str) \in 1..12 /\ DayOf(date_str) \in 1..31
        THEN /\ ret.error = ""
             /\ ret.value = <<DecimalValue(SubSeq(date_str, 1, 4)),
                              MonthOf(date_str), DayOf(date_str)>>
        ELSE ret.error # ""

\* C16: each of the two published city maps has at most 10 entries, and every
\* city of either map has at least floor(total / 100) records in the input.
C16_CityOutputInvariant ==
    pc = "done" =>
        /\ Len(city_counts) <= 10
        /\ Len(city_salaries) <= 10
        /\ \A c \in CitiesOf(city_counts) \cup CitiesOf(city_salaries) :
               CityCount(c) >= NumRecords(dataset) \div 100

\* eleven cities, both maps full, one city with a single record under the
\* threshold of 2
C16_Witness ==
    /\ pc = "done"
    /\ Cardinality(SeenCities) = 11
    /\ NumRecords(dataset) \div 100 = 2
    /\ Len(city_counts) = 10 /\ Len(city_salaries) = 10
    /\ \E c \in SeenCities :
           /\ CityCount(c) = 1
           /\ c \notin CitiesOf(city_counts) \cup CitiesOf(city_salaries)

\* C19: for the count ranking the order of the two steps does not matter: the
\* published city_counts, which the code gets by cutting the count-descending
\* list to 10 and then removing the cities under the threshold, is the list
\* got by removing the cities under the threshold first and cutting to 10
\* after; and no city ranked 11th by count passes the threshold while the
\* city ranked 9th fails it.
C19_CutAndFilterCommute ==
    pc = "done" =>
        \A st \in {CityStats} :
        \A passing \in {PassesThreshold(st)} :
        \A rank \in {[c \in passing |-> CountRank(st, passing, c)]} :
            /\ CitiesOf(city_counts) = {c \in passing : rank[c] <= 10}
            /\ \A j, k \in DOMAIN city_counts :
                   j < k => rank[city_counts[j][1]] < rank[city_counts[k][1]]
            /\ ~ \E c \in passing, d \in SeenCities \ passing :
                     /\ CountRank(st, SeenCities, c) = 11
                     /\ CountRank(st, SeenCities, d) = 9

\* eleven cities of 25 records each: all pass the threshold of 2, the cut
\* removes the eleventh
C19_Witness ==
    /\ pc = "done"
    /\ Cardinality(SeenCities) = 11
    /\ PassesThreshold(CityStats) = SeenCities
    /\ NumRecords(dataset) \div 100 = 2
    /\ Len(city_counts) = 10

\* the places of file j in the batches
PlacesOf(j) ==
    {km \in (DOMAIN process_batches) \X (DOMAIN files) :
        /\ km[2] \in DOMAIN process_batches[km[1]]
        /\ process_batches[km[1]][km[2]] = j}

\* C17: for every number n >= 1 of processors and every list of files the
\* reducer has floor(n / 2) workers, every file is in the batch of exactly
\* one worker, exactly once, and the assignment raises no error.
C17_PoolAndAssignment ==
    cpu_count >= 1 =>
        /\ error \notin {"ZeroDivisionError", "ValueError"}
        /\ pc \in {"mp_join", "mp_drain", "mp_done"} =>
               /\ Len(processes) = cpu_count \div 2
               /\ Len(process_batches) = cpu_count \div 2
               /\ \A j \in DOMAIN files : Cardinality(PlacesOf(j)) = 1

\* the loop of Statistics._generate over a list of vacancies
RECURSIVE GenerateLoop(_, _)
GenerateLoop(vacancies, name) ==
    IF vacancies = <<>> THEN EmptyAcc
    ELSE LoopBody(GenerateLoop(Front(vacancies), name), Last(vacancies), name)

\* the four year maps of Statistics(DataSet(vacancies), name), the salaries
\* as the integers they are printed as
StatisticsMaps(vacancies, name) ==
    LET acc == GenerateLoop(vacancies, name)
    IN  [salary_dynamic |-> PrintedMeans(acc.salary_dynamic),
         count_dynamic |-> acc.count_dynamic,
         salary_dynamic_filtered |->
             IF Len(acc.salary_dynamic_filtered) = 0
             THEN <<(<<FallbackYear, 0>>)>>
             ELSE PrintedMeans(acc.salary_dynamic_filtered),
         count_dynamic_filtered |->
             IF Len(acc.count_dynamic_filtered) = 0
             THEN <<(<<FallbackYear, 0>>)>>
             ELSE acc.count_dynamic_filtered]

\* two dicts with the same keys and the same values
SameDict(d, g) ==
    /\ Keys(d) = Keys(g)
    /\ \A y \in Keys(d) : Get(d, y, -1) = Get(g, y, -1)

\* a listing with a file in it, every file a shard of records of one year,
\* no two files of the same year
OneYearPerFile ==
    /\ files # <<>>
    /\ \A k \in DOMAIN files :
          /\ IsShard(files[k])
          /\ \A v \in {VacanciesOf(files[k])[j] : j \in DOMAIN VacanciesOf(files[k])} :
                WellFormedTimestamp(v.published_at) /\ Lookup(v.salary_currency).ok
          /\ Cardinality({YearOf(VacanciesOf(files[k])[j]) :
                             j \in DOMAIN VacanciesOf(files[k])}) = 1
    /\ \A k, m \in DOMAIN files :
          k # m => YearOf(VacanciesOf(files[k])[1]) # YearOf(VacanciesOf(files[m])[1])

\* C18: when each file holds records of one year and no two files share a
\* year, the four year maps a partitioned reducer (mp_stats.main or
\* cf_stats.main) has built have the same keys and the same integer values
\* as the four year maps of the single-pass Statistics over the records of
\* all files with the same filter, also for a year or a filter without a
\* matching record.
C18_PartitionedEqualsSinglePass ==
    (pc \in {"mp_done", "cf_done"} /\ OneYearPerFile) =>
        \A single \in {StatisticsMaps(AllVacancies(files), profession_name)} :
            /\ SameDict(salary_dynamic, single.salary_dynamic)
            /\ SameDict(count_dynamic, single.count_dynamic)
            /\ SameDict(salary_dynamic_filtered, single.salary_dynamic_filtered)
            /\ SameDict(count_dynamic_filtered, single.count_dynamic_filtered)

(***************************************************************************)
(* exchange_rates.py and currency_convertation.py.  data is the vacancies  *)
(* file as pandas reads it, run-length encoded: the run [published_at,     *)
(* salary_currency, n] stands for n rows; every row has its salary bounds. *)
(* A row of exchange_rates.csv is its date and the currencies it has a     *)
(* rate for.                                                               *)
(***************************************************************************)
MaxRows == 2

\* counts > 5000
AllowedMinimum == 5000

\* the order of the characters of a timestamp: "-" is before the digits
CharOrd(c) == IF c = "-" THEN 0 ELSE 1 + DigitVal(c)

\* a < b for two str
RECURSIVE StrLess(_, _)
StrLess(a, b) ==
    IF b = <<>> THEN FALSE
    ELSE IF a = <<>> THEN TRUE
    ELSE IF Head(a) # Head(b) THEN CharOrd(Head(a)) < CharOrd(Head(b))
    ELSE StrLess(Tail(a), Tail(b))

\* data['published_at'].min() and .max()
PublishedMin(d) ==
    CHOOSE t \in {d[k].published_at : k \in DOMAIN d} :
        \A k \in DOMAIN d : ~StrLess(d[k].published_at, t)

PublishedMax(d) ==
    CHOOSE t \in {d[k].published_at : k \in DOMAIN d} :
        \A k \in DOMAIN d : ~StrLess(t, d[k].published_at)

\* exchange_rates.convert_date: (int(date_str[:4]), int(date_str[5:7]))
exchange_rates_convert_date(s) ==
    <<DecimalValue(SubSeq(s, 1, 4)), DecimalValue(SubSeq(s, 6, 7))>>

\* f'{n:0{width}d}'
RECURSIVE Format(_, _)
Format(n, width) ==
    IF n < 10 /\ width <= 1
    THEN <<CHOOSE c \in Digits : DigitVal(c) = n>>
    ELSE Append(Format(n \div 10, width - 1),
                CHOOSE c \in Digits : DigitVal(c) = n % 10)

\* f'{year}-{month:02d}'
DateKey(year, month) == Format(year, 1) \o <<"-">> \o Format(month, 2)

\* get_allowed_currencies
get_allowed_currencies(d) ==
    {c \in {d[k].salary_currency : k \in DOMAIN d} :
        SumSeq([k \in DOMAIN d |->
                  IF d[k].salary_currency = c THEN d[k].n ELSE 0]) > AllowedMinimum}

\* load_exchange_rates_for_month: the bank quotes every currency asked for
\* but the rouble
load_exchange_rates_for_month(month, year, currencies) ==
    [date |-> DateKey(year, month), columns |-> currencies \ {"RUR"}]

\* the step of the loop from one month to the next
NextMonth(date) ==
    IF date[2] = 12 THEN <<date[1] + 1, 1>> ELSE <<date[1], date[2] + 1>>

RateStamps ==
    {y \o <<"-">> \o m \o <<"-", "1", "3">> :
        y \in {<<"2", "0", "2", "1">>, <<"2", "0", "2", "2">>},
        m \in {<<"0", "1">>, <<"1", "1">>, <<"1", "2">>}}

RateRows ==
    [published_at : RateStamps, salary_currency : {"RUR", "USD"},
     n : {1, AllowedMinimum + 1}]

\* one more run of rows in the vacancies file
AddRow ==
    /\ pc = "idle"
    /\ Len(data) < MaxRows
    /\ \E row \in RateRows : data' = Append(data, row)
    /\ UNCHANGED <<pc, current_date, date_end, rates>>
    /\ UNCHANGED <<salary_obj, date_str, ret>>
    /\ UNCHANGED restVars

\* exchange_rates.main up to the loop; min() of no row is nan, and
\* convert_date(nan) raises TypeError
exchange_rates_main ==
    /\ pc = "idle"
    /\ IF data = <<>>
       THEN /\ pc' = "rates_error"
            /\ ret' = [error |-> "TypeError", value |-> <<>>]
            /\ UNCHANGED <<current_date, date_end>>
       ELSE /\ pc' = "rates_loop"
            /\ current_date' = exchange_rates_convert_date(PublishedMin(data))
            /\ date_end' = exchange_rates_convert_date(PublishedMax(data))
            /\ ret' = ret
    /\ rates' = <<>>
    /\ UNCHANGED <<data, salary_obj, date_str>>
    /\ UNCHANGED restVars

\* one pass of  while current_date != date_end
rates_step ==
    /\ pc = "rates_loop"
    /\ current_date # date_end
    /\ rates' = Append(rates,
                       load_exchange_rates_for_month(
                           current_date[2], current_date[1],
                           get_allowed_currencies(data)))
    /\ current_date' = NextMonth(current_date)
    /\ UNCHANGED <<pc, data, date_end, salary_obj, date_str, ret>>
    /\ UNCHANGED restVars

\* the loop is left and exchange_rates.csv is written
rates_exit ==
    /\ pc = "rates_loop"
    /\ current_date = date_end
    /\ pc' = "rates_done"
    /\ UNCHANGED <<data, current_date, date_end, rates, salary_obj, date_str, ret>>
    /\ UNCHANGED restVars

\* rates.loc[f'{date[0]}-{date[1]:02d}'] is looked up for a row whose
\* currency is not RUR and is a column of rates
NeedsRate(row, columns) ==
    row.salary_currency # "RUR" /\ row.salary_currency \in columns

HasRateRow(row) ==
    \E j \in DOMAIN rates :
        rates[j].date = DateKey(exchange_rates_convert_date(row.published_at)[1],
                                exchange_rates_convert_date(row.published_at)[2])

\* currency_convertation.main on the same vacancies file and the written
\* exchange_rates.csv: a file written from no row has no column to parse, a
\* missing date raises KeyError in rates.loc
currency_convertation_main ==
    /\ pc = "rates_done"
    /\ LET columns == UNION {rates[j].columns : j \in DOMAIN rates}
       IN  IF rates = <<>>
           THEN /\ pc' = "convert_error"
                /\ ret' = [error |-> "EmptyDataError", value |-> <<>>]
           ELSE IF \E k \in DOMAIN data :
                       NeedsRate(data[k], columns) /\ ~HasRateRow(data[k])
           THEN /\ pc' = "convert_error"
                /\ ret' = [error |-> "KeyError", value |-> <<>>]
           ELSE /\ pc' = "converted"
                /\ ret' = [error |-> "",
                           value |-> SelectSeq(data,
                               LAMBDA row : \/ row.salary_currency = "RUR"
                                            \/ NeedsRate(row, columns))]
    /\ UNCHANGED <<data, current_date, date_end, rates, salary_obj, date_str>>
    /\ UNCHANGED restVars

NextRates ==
    \/ AddRow
    \/ exchange_rates_main
    \/ rates_step
    \/ rates_exit
    \/ currency_convertation_main

SpecRates == Init /\ [][NextRates]_vars

\* the months of the rows of data, as <<year, month>>
DataMonths ==
    {exchange_rates_convert_date(data[k].published_at) : k \in DOMAIN data}

MonthIndex(date) == date[1] * 12 + date[2]

\* the calendar months from the earliest to the latest month of data
MonthsOfData ==
    {ym \in (2021..2022) \X (1..12) :
        \E a \in DataMonths, b \in DataMonths :
            MonthIndex(a) <= MonthIndex(ym) /\ MonthIndex(ym) <= MonthIndex(b)}

\* C20: when the loop of exchange_rates.main is left, exchange_rates.csv has
\* one row for every calendar month from the month of the earliest
\* published_at to the month of the latest, both included, and
\* currency_convertation.main then finds the rate row of the month of every
\* record: it does not end with an exception.
C20_MonthCoverage ==
    /\ pc \in {"rates_done", "converted", "convert_error"} =>
           \A ym \in MonthsOfData :
               Cardinality({j \in DOMAIN rates :
                               rates[j].date = DateKey(ym[1], ym[2])}) = 1
    /\ pc # "convert_error"

(***************************************************************************)
(* hh_api.hh_get_vacancies.  The job board answers a request for page p of *)
(* a window of P pages with the items of that page and with 'pages': P; an *)
(* item is named by its page.                                              *)
(***************************************************************************)
MaxPages == 22

\* min(20, r['pages'])
PageCap == 20

\* total_pages = 999
InitialTotalPages == 999

Min(a, b) == IF a < b THEN a ELSE b

\* r['items'] of the answer to a request for page p
PageItems(p) == <<[page |-> p]>>

\* the value of the parameter 'page' of the request sent for the local page
PageParam(local_page) == 0

\* hh_get_vacancies(date_from, date_to) up to the loop
hh_get_vacancies ==
    /\ pc = "idle"
    /\ pc' = "hh_loop"
    /\ \E P \in 0..MaxPages : pages' = P
    /\ page' = 0
    /\ total_pages' = InitialTotalPages
    /\ items' = <<>>
    /\ requested' = <<>>
    /\ UNCHANGED <<salary_obj, date_str, ret, rateVars>>
    /\ UNCHANGED <<dataset, profession_name, one_percent, i, error,
                   salary_dynamic, salary_dynamic_filtered,
                   count_dynamic, count_dynamic_filtered,
                   city_counts, city_salaries,
                   files, file, stdout, cpu_count, process_batches,
                   processes, q>>

\* one pass of  while page < total_pages
hh_request ==
    /\ pc = "hh_loop"
    /\ page < total_pages
    /\ requested' = Append(requested, PageParam(page))
    /\ items' = items \o PageItems(PageParam(page))
    /\ total_pages' = Min(PageCap, pages)
    /\ page' = page + 1
    /\ UNCHANGED <<pc, pages>>
    /\ UNCHANGED <<salary_obj, date_str, ret, rateVars>>
    /\ UNCHANGED <<dataset, profession_name, one_percent, i, error,
                   salary_dynamic, salary_dynamic_filtered,
                   count_dynamic, count_dynamic_filtered,
                   city_counts, city_salaries,
                   files, file, stdout, cpu_count, process_batches,
                   processes, q>>

\* return items
hh_return ==
    /\ pc = "hh_loop"
    /\ ~(page < total_pages)
    /\ pc' = "hh_returned"
    /\ ret' = [error |-> "", value |-> items]
    /\ UNCHANGED hhVars
    /\ UNCHANGED <<salary_obj, date_str, rateVars>>
    /\ UNCHANGED <<dataset, profession_name, one_percent, i, error,
                   salary_dynamic, salary_dynamic_filtered,
                   count_dynamic, count_dynamic_filtered,
                   city_counts, city_salaries,
                   files, file, stdout, cpu_count, process_batches,
                   processes, q>>

NextHH == hh_get_vacancies \/ hh_request \/ hh_return

SpecHH == Init /\ [][NextHH]_vars

\* the requests the window asks for: one for a window of no page
ExpectedRequests == IF pages = 0 THEN 1 ELSE Min(20, pages)

\* C21: for a window of P pages hh_get_vacancies sends min(20, P) requests
\* (one when P = 0), asks for the page indexes 0 .. min(20, P) - 1 once each
\* in increasing order, and returns the items of each of these pages once.
C21_Pagination ==
    pc = "hh_returned" =>
        /\ Len(requested) = ExpectedRequests
        /\ \A k \in DOMAIN requested : requested[k] = k - 1
        /\ Len(ret.value) = ExpectedRequests
        /\ \A k \in DOMAIN ret.value : ret.value[k] = PageItems(k - 1)[1]

(***************************************************************************)
(* TableGenerator._format_vacancy and the date filter of filter_functions. *)
(* The vacancy is its published_at; its other fields are well formed.      *)
(***************************************************************************)
\* list[k] of Python, k >= 0 counted from 0
Subscript(list, k) ==
    IF k < Len(list) THEN [error |-> "", value |-> list[k + 1]]
    ELSE [error |-> "IndexError", value |-> 0]

\* the field 'Дата публикации вакансии' of _format_vacancy(v):
\* match = convert_date(v.published_at) and f'{match[3]}.{match[2]}.{match[1]}'
_format_vacancy(published_at) ==
    LET match == convert_date(published_at)
    IN  IF match.error # "" THEN [error |-> match.error, value |-> <<>>]
        ELSE IF \E k \in {3, 2, 1} : Subscript(match.value, k).error # ""
        THEN [error |-> "IndexError", value |-> <<>>]
        ELSE [error |-> "",
              value |-> Format(Subscript(match.value, 3).value, 1) \o <<".">>
                        \o Format(Subscript(match.value, 2).value, 1) \o <<".">>
                        \o Format(Subscript(match.value, 1).value, 1)]

\* re.sub(r'^(\d{4})-(\d{2})-(\d{2}).*$', r'\3.\2.\1', published_at): the
\* match is replaced, a line break that ends the string stays
DateFilterText(published_at) ==
    IF ~DateMatches(published_at) THEN published_at
    ELSE SubSeq(published_at, 9, 10) \o <<".">>
         \o SubSeq(published_at, 6, 7) \o <<".">>
         \o SubSeq(published_at, 1, 4)
         \o (IF Last(published_at) = "\n" THEN <<"\n">> ELSE <<>>)

\* TableGenerator._format_vacancy(v) for the vacancy published at date_str
call_format_vacancy ==
    /\ pc = "date"
    /\ pc' = "formatted"
    /\ ret' = _format_vacancy(date_str)
    /\ UNCHANGED <<salary_obj, date_str>>
    /\ UNCHANGED rateVars
    /\ UNCHANGED restVars

NextFormat == NewDate \/ call_format_vacancy

SpecFormat == Init /\ [][NextFormat]_vars

\* DD.MM.YYYY
IsDayMonthYear(t) ==
    /\ Len(t) = 10
    /\ \A k \in {1, 2, 4, 5, 7, 8, 9, 10} : t[k] \in Digits
    /\ t[3] = "." /\ t[6] = "."

\* C22: for a vacancy whose published_at is a valid date YYYY-MM-DD followed
\* by anything on the same line, _format_vacancy completes without error and
\* its date field has the form DD.MM.YYYY and is the string the date filter
\* compares the filter value with.
C22_TableDateFormat ==
    (/\ pc = "formatted"
     /\ DateMatches(date_str)
     /\ Last(date_str) # "\n"
     /\ MonthOf(date_str) \in 1..12 /\ DayOf(date_str) \in 1..31) =>
        /\ ret.error = ""
        /\ IsDayMonthYear(ret.value)
        /\ ret.value = DateFilterText(date_str)

\* a file with the six-column header and a clean row at least: no empty
\* cell, as many cells as the header
HasCleanRow(f) ==
    /\ Len(f) >= 2
    /\ Len(Head(f)) = 6
    /\ \E k \in 2..Len(f) : ~IsDropped(Head(f), f[k])

\* C23: for a csv file with a header and at least one clean row,
\* DataSetReader(file).read() completes without error and returns one
\* Vacancy per clean row, in the order of the file, which is the dataset the
\* Statistics of stats.main is built on.
C23_ReadReturnsCleanRows ==
    (file # 0 /\ HasCleanRow(files[file])) =>
        /\ pc # "error"
        /\ dataset = Runs(VacanciesOf(files[file]))
        /\ read(files[file]).error = ""

(***************************************************************************)
(* mp_stats.main and the queue.  q.put of multiprocessing.Queue appends to *)
(* a buffer of the putting process; a feeder thread of that process writes *)
(* the buffer to the pipe of the queue, which holds PipeCapacity tuples;   *)
(* a process that returns from process_start, or leaves it with an         *)
(* exception, exits once its buffer is written.  q is what is in the pipe. *)
(* What the processing of one file does is left open here: it raises, or   *)
(* it ends and puts its tuple; the tuple is named by the file.             *)
(***************************************************************************)
PipeCapacity == 1

\* the processing of the next file of process k ends with q.put(...)
worker_put(k) ==
    /\ pc = "mp_join"
    /\ processes[k].state = "started"
    /\ processes[k].file <= Len(process_batches[k])
    /\ processes' =
           [processes EXCEPT
              ![k].file = @ + 1,
              ![k].buffer =
                  Append(@, <<process_batches[k][processes[k].file],
                              <<0, 0, 0, 0>> >>)]
    /\ UNCHANGED <<pc, dataset, profession_name, one_percent, i, error,
                   salary_dynamic, salary_dynamic_filtered,
                   count_dynamic, count_dynamic_filtered,
                   city_counts, city_salaries,
                   files, file, stdout, cpu_count, process_batches, q>>
    /\ UNCHANGED libVars

\* the processing of the next file of process k raises
worker_raise(k) ==
    /\ pc = "mp_join"
    /\ processes[k].state = "started"
    /\ processes[k].file <= Len(process_batches[k])
    /\ processes' = [processes EXCEPT ![k].state = "finishing",
                                      ![k].exitcode = 1]
    /\ UNCHANGED <<pc, dataset, profession_name, one_percent, i, error,
                   salary_dynamic, salary_dynamic_filtered,
                   count_dynamic, count_dynamic_filtered,
                   city_counts, city_salaries,
                   files, file, stdout, cpu_count, process_batches, q>>
    /\ UNCHANGED libVars

\* process k has no file left and returns from process_start
worker_return(k) ==
    /\ pc = "mp_join"
    /\ processes[k].state = "started"
    /\ processes[k].file > Len(process_batches[k])
    /\ processes' = [processes EXCEPT ![k].state = "finishing"]
    /\ UNCHANGED <<pc, dataset, profession_name, one_percent, i, error,
                   salary_dynamic, salary_dynamic_filtered,
                   count_dynamic, count_dynamic_filtered,
                   city_counts, city_salaries,
                   files, file, stdout, cpu_count, process_batches, q>>
    /\ UNCHANGED libVars

\* the feeder thread of process k writes one tuple to the pipe
feeder(k) ==
    /\ pc = "mp_join"
    /\ processes[k].state # "exited"
    /\ processes[k].buffer # <<>>
    /\ Len(q) < PipeCapacity
    /\ q' = Append(q, Head(processes[k].buffer))
    /\ processes' = [processes EXCEPT ![k].buffer = Tail(@)]
    /\ UNCHANGED <<pc, dataset, profession_name, one_percent, i, error,
                   salary_dynamic, salary_dynamic_filtered,
                   count_dynamic, count_dynamic_filtered,
                   city_counts, city_salaries,
                   files, file, stdout, cpu_count, process_batches>>
    /\ UNCHANGED libVars

\* process k exits: its feeder thread is joined first
worker_exit(k) ==
    /\ pc = "mp_join"
    /\ processes[k].state = "finishing"
    /\ processes[k].buffer = <<>>
    /\ processes' = [processes EXCEPT ![k].state = "exited"]
    /\ UNCHANGED <<pc, dataset, profession_name, one_percent, i, error,
                   salary_dynamic, salary_dynamic_filtered,
                   count_dynamic, count_dynamic_filtered,
                   city_counts, city_salaries,
                   files, file, stdout, cpu_count, process_batches, q>>
    /\ UNCHANGED libVars

NextQueue ==
    \/ AddFile
    \/ mp_main
    \/ \E k \in DOMAIN processes : worker_put(k)
    \/ \E k \in DOMAIN processes : worker_raise(k)
    \/ \E k \in DOMAIN processes : worker_return(k)
    \/ \E k \in DOMAIN processes : feeder(k)
    \/ \E k \in DOMAIN processes : worker_exit(k)
    \/ join
    \/ mp_assemble

SpecQueue == Init /\ [][NextQueue]_vars

\* process k has ended its work and waits to hand over its tuples, and the
\* pipe is full
WaitsToHandOver(k) ==
    /\ processes[k].state = "finishing"
    /\ processes[k].buffer # <<>>
    /\ Len(q) >= PipeCapacity

====
